---- MODULE Spec2Model ----
(***************************************************************************)
(* EngagementAnalyzer (engagement-dashboard/analyzer.py): the pre-posting  *)
(* tweet scorer.  A text is a sequence of one-character strings; the       *)
(* regular expressions of the analyzer are matched on those characters.    *)
(* Scores are the integers the code's floats hold (every penalty and boost *)
(* is a whole number); the overall score is kept in thousandths.           *)
(***************************************************************************)
EXTENDS Integers, Sequences, FiniteSets, TLC

VARIABLES args, hashSeed, result

vars == <<args, hashSeed, result>>

(***************************************************************************)
(* Characters: str.isspace, str.isupper, str.lower, and the regex classes  *)
(* \w and \d, on the ASCII characters the texts are written with.          *)
(***************************************************************************)
UpperLetters == <<"A", "B", "C", "D", "E", "F", "G", "H", "I", "J", "K", "L", "M", "N", "O", "P", "Q", "R", "S", "T", "U", "V", "W", "X", "Y", "Z">>

LowerLetters == <<"a", "b", "c", "d", "e", "f", "g", "h", "i", "j", "k", "l", "m", "n", "o", "p", "q", "r", "s", "t", "u", "v", "w", "x", "y", "z">>

Digits == {"0", "1", "2", "3", "4", "5", "6", "7", "8", "9"}

UpperSet == {UpperLetters[i] : i \in 1..26}

LowerSet == {LowerLetters[i] : i \in 1..26}

WordSet == UpperSet \cup LowerSet \cup Digits \cup {"_"}

SpaceSet == {" ", "\n", "\t"}

LowerOf == [c \in UpperSet |-> LowerLetters[CHOOSE i \in 1..26 : UpperLetters[i] = c]]

isspace(c) == c \in SpaceSet

isupper(c) == c \in UpperSet

lower(s) == [i \in 1..Len(s) |-> IF s[i] \in UpperSet THEN LowerOf[s[i]] ELSE s[i]]

(***************************************************************************)
(* Sequence helpers.                                                       *)
(***************************************************************************)
RECURSIVE Flatten(_)
Flatten(ss) == IF ss = <<>> THEN <<>> ELSE Head(ss) \o Flatten(Tail(ss))

RECURSIVE SumSeq(_)
SumSeq(ns) == IF ns = <<>> THEN 0 ELSE Head(ns) + SumSeq(Tail(ns))

Count(s, set) == Cardinality({i \in 1..Len(s) : s[i] \in set})

Prefix(s, n) == SubSeq(s, 1, IF Len(s) < n THEN Len(s) ELSE n)

StartsAt(s, pos, lit) == /\ pos + Len(lit) - 1 <= Len(s)
                         /\ \A j \in 1..Len(lit) : s[pos + j - 1] = lit[j]

Contains(s, lit) == \E pos \in 1..(Len(s) - Len(lit) + 1) : StartsAt(s, pos, lit)

Min(S) == CHOOSE x \in S : \A y \in S : x <= y

\* The end (exclusive) of the longest run of characters of `set` that starts at pos.
RunEnd(s, pos, set) == IF \E j \in pos..Len(s) : s[j] \notin set
                       THEN Min({j \in pos..Len(s) : s[j] \notin set})
                       ELSE Len(s) + 1

\* The end (exclusive) of the longest run of characters outside `set` from pos.
RunEndNot(s, pos, set) == IF \E j \in pos..Len(s) : s[j] \in set
                          THEN Min({j \in pos..Len(s) : s[j] \in set})
                          ELSE Len(s) + 1

\* <<hi, hi-1, ..., lo>>, empty when hi < lo.
Downto(hi, lo) == [i \in 1..(IF hi < lo THEN 0 ELSE hi - lo + 1) |-> hi - i + 1]

(***************************************************************************)
(* re: a compiled pattern is a sequence of elements, matched left to right *)
(* with backtracking in the priority order of Python's re module.          *)
(*   WB        \b                                                          *)
(*   WS        \s+          (greedy)                                       *)
(*   ANY       .*           (greedy, no newline)                           *)
(*   Grp(alts) a capturing group ( a1 | a2 | ... ) of literals; an         *)
(*             alternative may end in \d+                                  *)
(* Patterns are compiled with re.IGNORECASE: the literals are lower case   *)
(* and are matched against the lowered text.                               *)
(***************************************************************************)
WB == [k |-> "b"]

WS == [k |-> "s"]

ANY == [k |-> "a"]

Lit(cs) == [lit |-> cs, digits |-> FALSE]

LitDigits(cs) == [lit |-> cs, digits |-> TRUE]

\* first: the characters a match of the group can start with.
Grp(alts) == [k |-> "g", alts |-> alts, first |-> {alts[a].lit[1] : a \in 1..Len(alts)}]

NoMatch == [ok |-> FALSE, end |-> 0, caps |-> <<>>]

IsWordAt(t, i) == i >= 1 /\ i <= Len(t) /\ t[i] \in WordSet

AtWordBoundary(t, pos) == IsWordAt(t, pos - 1) # IsWordAt(t, pos)

\* The ends (exclusive), best first, of the matches of one alternative at pos.
AltEnds(t, pos, alt) ==
    IF ~StartsAt(t, pos, alt.lit) THEN <<>>
    ELSE IF ~alt.digits THEN <<pos + Len(alt.lit)>>
    ELSE Downto(RunEnd(t, pos + Len(alt.lit), Digits), pos + Len(alt.lit) + 1)

\* Whether element el can match at pos at all, by its first character.
CanStart(t, pos, el) == el.k # "g" \/ (pos <= Len(t) /\ t[pos] \in el.first)

\* The candidate ends of element el at pos, in the order the matcher tries them;
\* nxt is the element that follows el.  The ends of .* after which nxt cannot
\* start are left out: the matcher would try them and fail.
ElemEnds(t, pos, el, nxt) ==
    CASE el.k = "b" -> IF AtWordBoundary(t, pos) THEN <<pos>> ELSE <<>>
      [] el.k = "s" -> Downto(RunEnd(t, pos, SpaceSet), pos + 1)
      [] el.k = "a" -> SelectSeq(Downto(RunEndNot(t, pos, {"\n"}), pos),
                                 LAMBDA e : CanStart(t, e, nxt))
      [] el.k = "g" -> IF CanStart(t, pos, el)
                       THEN Flatten([a \in 1..Len(el.alts) |-> AltEnds(t, pos, el.alts[a])])
                       ELSE <<>>

RECURSIVE MatchFrom(_, _, _, _, _)
RECURSIVE TryEnds(_, _, _, _, _, _)
RECURSIVE OrElse(_, _, _, _, _, _, _)
\* Match elements k.. of pat at pos; caps are the <<start, end>> spans of the groups so far.
MatchFrom(t, pat, k, pos, caps) ==
    IF k > Len(pat) THEN [ok |-> TRUE, end |-> pos, caps |-> caps]
    ELSE TryEnds(t, pat, k, pos, caps,
                 ElemEnds(t, pos, pat[k], IF k < Len(pat) THEN pat[k + 1] ELSE WB))

\* Element k ends at the first of the candidate ends from which the rest matches.
TryEnds(t, pat, k, pos, caps, ends) ==
    IF ends = <<>> THEN NoMatch
    ELSE OrElse(MatchFrom(t, pat, k + 1, Head(ends),
                          IF pat[k].k = "g" THEN Append(caps, <<pos, Head(ends) - 1>>) ELSE caps),
                t, pat, k, pos, caps, Tail(ends))

\* Backtracking: the match m if it succeeded, else the next candidate end.
OrElse(m, t, pat, k, pos, caps, rest) ==
    IF m.ok THEN m ELSE TryEnds(t, pat, k, pos, caps, rest)

\* The two-character prefixes a match of pat can start with: pat starts with a
\* group, or with \b and a group, whose literals all have two characters or more.
FirstChars(pat) == LET g == IF pat[1].k = "g" THEN pat[1] ELSE pat[2]
                   IN  {<<g.alts[a].lit[1], g.alts[a].lit[2]>> : a \in 1..Len(g.alts)}

NumGroups(pat) == Cardinality({k \in 1..Len(pat) : pat[k].k = "g"})

\* re.compile: the elements with what the matcher precomputes.
compile(pat) == [els |-> pat, first |-> FirstChars(pat), groups |-> NumGroups(pat)]

\* The match of rx that starts at position i, if any.
MatchAt(t, rx, i) ==
    IF i < Len(t) /\ <<t[i], t[i + 1]>> \in rx.first
    THEN [start |-> i] @@ MatchFrom(t, rx.els, 1, i, <<>>)
    ELSE [start |-> i] @@ NoMatch

\* What findall yields for one match: the group's text when the pattern has one
\* group, a tuple of the groups' texts when it has more.
MatchItem(text, rx, m) ==
    IF rx.groups = 1
    THEN [tuple |-> FALSE, s |-> SubSeq(text, m.caps[1][1], m.caps[1][2])]
    ELSE [tuple |-> TRUE,
          s |-> [g \in 1..rx.groups |-> SubSeq(text, m.caps[g][1], m.caps[g][2])]]

\* The leftmost of a set of matches.
Leftmost(ms) == CHOOSE m \in ms : \A o \in ms : m.start <= o.start

RECURSIVE ScanHits(_, _, _, _)
\* The non-overlapping matches, left to right: a match is taken when it starts at
\* or after the end of the previous one.
ScanHits(text, rx, ms, from) ==
    IF \A m \in ms : m.start < from THEN <<>>
    ELSE <<MatchItem(text, rx, Leftmost({m \in ms : m.start >= from}))>>
         \o ScanHits(text, rx, ms, Leftmost({m \in ms : m.start >= from}).end)

\* pattern.findall(text) for a pattern compiled with re.IGNORECASE; t is
\* lower(text) and starts holds the positions where a match of rx may start.
findall(rx, text, t, starts) ==
    ScanHits(text, rx, {m \in {MatchAt(t, rx, i) : i \in starts} : m.ok}, 1)

(***************************************************************************)
(* The pattern sets of the class, as compiled by __init__.                 *)
(***************************************************************************)
TOXIC_PATTERNS == <<
    <<WB, Grp(<<Lit(<<"h", "a", "t", "e">>), Lit(<<"s", "t", "u", "p", "i", "d">>), Lit(<<"i", "d", "i", "o", "t">>), Lit(<<"d", "u", "m", "b">>), Lit(<<"t", "r", "a", "s", "h">>), Lit(<<"g", "a", "r", "b", "a", "g", "e">>), Lit(<<"w", "o", "r", "s", "t">>)>>), WB>>,
    <<WB, Grp(<<Lit(<<"k", "i", "l", "l">>), Lit(<<"d", "i", "e">>), Lit(<<"d", "e", "a", "t", "h">>), Lit(<<"h", "u", "r", "t">>)>>), WS, Grp(<<Lit(<<"y", "o", "u">>), Lit(<<"y", "o", "u", "r", "s", "e", "l", "f">>), Lit(<<"t", "h", "e", "m">>)>>)>>,
    <<WB, Grp(<<Lit(<<"f", "*", "c", "k">>), Lit(<<"s", "h", "*", "t">>), Lit(<<"d", "a", "m", "n">>), Lit(<<"h", "e", "l", "l">>)>>), WS, Grp(<<Lit(<<"y", "o", "u">>), Lit(<<"o", "f", "f">>)>>)>>,
    <<WB, Grp(<<Lit(<<"l", "o", "s", "e", "r">>), Lit(<<"p", "a", "t", "h", "e", "t", "i", "c">>), Lit(<<"d", "i", "s", "g", "u", "s", "t", "i", "n", "g">>), Lit(<<"h", "o", "r", "r", "i", "b", "l", "e">>)>>), WB>> >>

SPAM_PATTERNS == <<
    <<Grp(<<Lit(<<"c", "l", "i", "c", "k", " ", "h", "e", "r", "e">>), Lit(<<"f", "o", "l", "l", "o", "w", " ", "f", "o", "r", " ", "f", "o", "l", "l", "o", "w">>), Lit(<<"f", "4", "f">>), Lit(<<"l", "4", "l">>)>>)>>,
    <<Grp(<<Lit(<<"b", "u", "y", " ", "n", "o", "w">>), Lit(<<"l", "i", "m", "i", "t", "e", "d", " ", "t", "i", "m", "e">>), Lit(<<"a", "c", "t", " ", "n", "o", "w">>), Lit(<<"o", "f", "f", "e", "r", " ", "e", "x", "p", "i", "r", "e", "s">>)>>)>>,
    <<Grp(<<LitDigits(<<"m", "a", "k", "e", " ", "$">>), Lit(<<"e", "a", "r", "n", " ", "m", "o", "n", "e", "y", " ", "f", "a", "s", "t">>), Lit(<<"w", "o", "r", "k", " ", "f", "r", "o", "m", " ", "h", "o", "m", "e">>)>>)>>,
    <<Grp(<<Lit(<<"c", "r", "y", "p", "t", "o">>), Lit(<<"b", "i", "t", "c", "o", "i", "n">>), Lit(<<"n", "f", "t">>)>>), ANY, Grp(<<Lit(<<"g", "u", "a", "r", "a", "n", "t", "e", "e", "d">>), Lit(<<"p", "r", "o", "f", "i", "t">>), Lit(<<"r", "e", "t", "u", "r", "n", "s">>)>>)>>,
    <<Grp(<<Lit(<<"d", "m", " ", "f", "o", "r">>), Lit(<<"c", "h", "e", "c", "k", " ", "b", "i", "o">>), Lit(<<"l", "i", "n", "k", " ", "i", "n", " ", "b", "i", "o">>)>>), ANY, Grp(<<Lit(<<"$">>), Lit(<<"m", "o", "n", "e", "y">>), Lit(<<"c", "a", "s", "h">>), Lit(<<"p", "a", "i", "d">>)>>)>> >>

NSFW_PATTERNS == <<
    <<WB, Grp(<<Lit(<<"s", "e", "x">>), Lit(<<"p", "o", "r", "n">>), Lit(<<"x", "x", "x">>), Lit(<<"n", "s", "f", "w">>), Lit(<<"n", "u", "d", "e">>), Lit(<<"n", "a", "k", "e", "d">>)>>), WB>>,
    <<WB, Grp(<<Lit(<<"s", "e", "x", "u", "a", "l">>), Lit(<<"e", "x", "p", "l", "i", "c", "i", "t">>), Lit(<<"a", "d", "u", "l", "t", " ", "c", "o", "n", "t", "e", "n", "t">>)>>), WB>> >>

SUSPICIOUS_DOMAINS == <<<<"b", "i", "t", ".", "l", "y">>, <<"t", "i", "n", "y", "u", "r", "l", ".", "c", "o", "m">>, <<"s", "h", "o", "r", "t", "u", "r", "l", ".", "a", "t">>, <<"c", "l", "i", "c", "k">>, <<"o", "f", "f", "e", "r">>, <<"p", "r", "o", "m", "o">>, <<"d", "e", "a", "l", "s">>>>

toxic_regex == [p \in 1..Len(TOXIC_PATTERNS) |-> compile(TOXIC_PATTERNS[p])]

spam_regex == [p \in 1..Len(SPAM_PATTERNS) |-> compile(SPAM_PATTERNS[p])]

nsfw_regex == [p \in 1..Len(NSFW_PATTERNS) |-> compile(NSFW_PATTERNS[p])]

\* for pattern in regexes: matches = pattern.findall(text); extend.  t is
\* lower(text) and starts is MatchStarts(t), computed once for the three sets.
\* The two-character prefixes a match of any pattern of the three sets can start with.
ALL_FIRST == UNION {toxic_regex[p].first : p \in 1..Len(toxic_regex)}
             \cup UNION {spam_regex[p].first : p \in 1..Len(spam_regex)}
             \cup UNION {nsfw_regex[p].first : p \in 1..Len(nsfw_regex)}

\* The positions of the lowered text t where a match of some pattern may start.
MatchStarts(t) == {i \in 1..(Len(t) - 1) : <<t[i], t[i + 1]>> \in ALL_FIRST}

AllMatches(regexes, text, t, starts) ==
    IF starts = {} THEN <<>>
    ELSE Flatten([p \in 1..Len(regexes) |-> findall(regexes[p], text, t, starts)])

(***************************************************************************)
(* Class constants.                                                        *)
(***************************************************************************)
OPTIMAL_LENGTH_MIN == 50

OPTIMAL_LENGTH_MAX == 280

SWEET_SPOT_MIN == 100

SWEET_SPOT_MAX == 200

\* MAX_CAPS_RATIO = 0.3 and RECOMMENDED_CAPS_RATIO = 0.1, as the fractions num/den.
MAX_CAPS_RATIO == [num |-> 3, den |-> 10]

RECOMMENDED_CAPS_RATIO == [num |-> 1, den |-> 10]

\* The literal 0.5 of the caps check.
HALF_CAPS_RATIO == [num |-> 1, den |-> 2]

\* a > b and a <= b for ratios with positive denominators.  The code compares the
\* float upper_count / char_count with the float literal; the quotient of two
\* small integers is the nearest double to the fraction, as the literal is, so the
\* float comparison and the comparison of the fractions agree.
RatioGT(a, b) == a.num * b.den > b.num * a.den

RatioLE(a, b) == ~RatioGT(a, b)

None == "None"

(***************************************************************************)
(* _extract_features                                                       *)
(***************************************************************************)
HTTP == <<"h", "t", "t", "p", ":", "/", "/">>

HTTPS == <<"h", "t", "t", "p", "s", ":", "/", "/">>

\* The end (exclusive) of the match of https?://[^\s]+ that starts at i, or 0.
UrlEnd(text, i) ==
    LET after == IF StartsAt(text, i, HTTP) THEN i + Len(HTTP)
                 ELSE IF StartsAt(text, i, HTTPS) THEN i + Len(HTTPS) ELSE 0
    IN  IF after = 0 \/ after > Len(text) \/ isspace(text[after]) THEN 0
        ELSE RunEndNot(text, after, SpaceSet)

\* The end (exclusive) of the match of <sigil>\w+ that starts at i, or 0.
TagEnd(text, i, sigil) ==
    IF text[i] = sigil /\ IsWordAt(text, i + 1) THEN RunEnd(text, i + 1, WordSet) ELSE 0

RECURSIVE ScanSpans(_, _, _)
\* re.findall for a pattern with no group: the non-overlapping matches, left to
\* right; ends[i] is the end of the match that starts at i, for each i where
\* one starts.
ScanSpans(text, ends, from) ==
    LET left == {i \in DOMAIN ends : i >= from}
    IN  IF left = {} THEN <<>>
        ELSE LET i == Min(left)
             IN  <<SubSeq(text, i, ends[i] - 1)>> \o ScanSpans(text, ends, ends[i])

find_urls(text) ==
    LET hits == {i \in 1..Len(text) : text[i] = "h" /\ UrlEnd(text, i) > 0}
    IN  IF hits = {} THEN <<>> ELSE ScanSpans(text, [i \in hits |-> UrlEnd(text, i)], 1)

find_mentions(text) ==
    LET hits == {i \in 1..Len(text) : text[i] = "@" /\ TagEnd(text, i, "@") > 0}
    IN  IF hits = {} THEN <<>> ELSE ScanSpans(text, [i \in hits |-> TagEnd(text, i, "@")], 1)

find_hashtags(text) ==
    LET hits == {i \in 1..Len(text) : text[i] = "#" /\ TagEnd(text, i, "#") > 0}
    IN  IF hits = {} THEN <<>> ELSE ScanSpans(text, [i \in hits |-> TagEnd(text, i, "#")], 1)

\* urlparse(url).netloc for a url that starts with http:// or https://: what
\* follows the "//" up to the first "/", "?" or "#".
netloc(url) ==
    LET start == (IF StartsAt(url, 1, HTTP) THEN Len(HTTP) ELSE Len(HTTPS)) + 1
    IN  SubSeq(url, start, RunEndNot(url, start, {"/", "?", "#"}) - 1)

\* urlsplit raises ValueError("Invalid IPv6 URL") when the netloc holds one
\* bracket and not the other.
urlparse_raises(url) ==
    LET n == netloc(url)
        open == \E i \in 1..Len(n) : n[i] = "["
        close == \E i \in 1..Len(n) : n[i] = "]"
    IN  open # close

\* The loop body: try: domain = ...; if any(...): append / except: append
is_suspicious(url) ==
    IF urlparse_raises(url) THEN TRUE
    ELSE LET domain == lower(netloc(url))
         IN  \E d \in 1..Len(SUSPICIOUS_DOMAINS) : Contains(domain, SUSPICIOUS_DOMAINS[d])

_extract_features(text, has_media, media_type, is_reply) ==
    LET char_count == Cardinality({i \in 1..Len(text) : text[i] \notin SpaceSet})
        upper_count == Count(text, UpperSet)
        urls == find_urls(text)
        mentions == find_mentions(text)
        hashtags == find_hashtags(text)
    IN  [text_length |-> Len(text),
         char_count |-> char_count,
         caps_ratio |-> IF char_count > 0 THEN [num |-> upper_count, den |-> char_count]
                        ELSE [num |-> 0, den |-> 1],
         upper_count |-> upper_count,
         whitespace_count |-> Len(text) - char_count,
         newline_count |-> Count(text, {"\n"}),
         has_question |-> \E i \in 1..Len(text) : text[i] = "?",
         question_count |-> Count(text, {"?"}),
         urls |-> urls,
         url_count |-> Len(urls),
         suspicious_urls |-> SelectSeq(urls, is_suspicious),
         mentions |-> mentions,
         mention_count |-> Len(mentions),
         hashtags |-> hashtags,
         hashtag_count |-> Len(hashtags),
         has_media |-> has_media,
         media_type |-> media_type,
         is_reply |-> is_reply]

(***************************************************************************)
(* set() and str.join.  The iteration order of a set of strings follows    *)
(* the strings' hashes, which CPython randomises per process               *)
(* (PYTHONHASHSEED): within one process the order of a given set is fixed, *)
(* between processes it may be any permutation.  A set built from at most  *)
(* three items has at most three elements.                                 *)
(***************************************************************************)
RECURSIVE Distinct(_)
Distinct(s) == IF s = <<>> THEN <<>>
               ELSE LET d == Distinct(Prefix(s, Len(s) - 1))
                    IN  IF \E i \in 1..Len(d) : d[i] = s[Len(s)] THEN d ELSE Append(d, s[Len(s)])

Permutations3 == << <<1, 2, 3>>, <<2, 1, 3>>, <<3, 2, 1>>, <<1, 3, 2>>, <<2, 3, 1>>, <<3, 1, 2>> >>

\* The elements of set(items) in the order this process iterates them.
set_iter(items, seed) ==
    LET d == Distinct(items)
        n == Len(d)
        perm == Permutations3[(seed % (IF n = 3 THEN 6 ELSE IF n = 2 THEN 2 ELSE 1)) + 1]
        order == SelectSeq(perm, LAMBDA j : j <= n)
    IN  [i \in 1..n |-> d[order[i]]]

RECURSIVE join(_, _)
join(sep, strs) == IF strs = <<>> THEN <<>>
                   ELSE IF Len(strs) = 1 THEN strs[1]
                   ELSE strs[1] \o sep \o join(sep, Tail(strs))

COMMA == <<",", " ">>

MATCHED == <<"M", "a", "t", "c", "h", "e", "d", ":", " ">>

ELLIPSIS == <<".", ".", ".">>

URLS == <<"U", "R", "L", "s", ":", " ">>

(***************************************************************************)
(* _analyze_safety                                                         *)
(***************************************************************************)
Penalty(type, severity, penalty, description, details) ==
    [type |-> type, severity |-> severity, impact |-> 0 - penalty,
     description |-> description, details |-> details]

Msg(template, n) == [msg |-> template, n |-> n]

min(a, b) == IF a < b THEN a ELSE b

max(a, b) == IF a > b THEN a ELSE b

\* ", ".join(set(toxic_matches[:3])) raises TypeError when an item is a tuple.
toxic_join_raises(toxic_matches) ==
    \E i \in 1..Len(Prefix(toxic_matches, 3)) : toxic_matches[i].tuple

\* toxic_penalty with the severity threshold of the spam check (50).
toxic_penalty_spam_threshold(toxic_matches, seed) ==
    LET penalty_severity == min(Len(toxic_matches) * 15, 60)
    IN  Penalty("HIGH_TOXICITY",
                IF penalty_severity > 50 THEN "CRITICAL" ELSE "HIGH",
                penalty_severity,
                Msg("Toxic language detected: {} pattern(s)", Len(toxic_matches)),
                MATCHED
                \o join(COMMA, set_iter([i \in 1..Len(Prefix(toxic_matches, 3)) |-> toxic_matches[i].s], seed))
                \o ELLIPSIS)

toxic_penalty(toxic_matches, seed) ==
    LET penalty_severity == min(Len(toxic_matches) * 15, 60)
    IN  Penalty("HIGH_TOXICITY",
                IF penalty_severity > 40 THEN "CRITICAL" ELSE "HIGH",
                penalty_severity,
                Msg("Toxic language detected: {} pattern(s)", Len(toxic_matches)),
                MATCHED
                \o join(COMMA, set_iter([i \in 1..Len(Prefix(toxic_matches, 3)) |-> toxic_matches[i].s], seed))
                \o ELLIPSIS)

spam_penalty(spam_matches, seed) ==
    LET penalty_severity == min(Len(spam_matches) * 20, 70)
        first == [i \in 1..Len(Prefix(spam_matches, 3)) |->
                    IF spam_matches[i].tuple THEN spam_matches[i].s[1] ELSE spam_matches[i].s]
    IN  Penalty("HIGH_SPAMMY_CONTENT",
                IF penalty_severity > 50 THEN "CRITICAL" ELSE "HIGH",
                penalty_severity,
                Msg("Spam patterns detected: {} indicator(s)", Len(spam_matches)),
                MATCHED \o join(COMMA, set_iter(first, seed)) \o ELLIPSIS)

nsfw_penalty(nsfw_matches, seed) ==
    Penalty("NSFW_CONTENT", "CRITICAL", 50, Msg("NSFW content detected", 0),
            MATCHED
            \o join(COMMA, set_iter([i \in 1..Len(Prefix(nsfw_matches, 3)) |-> nsfw_matches[i].s], seed))
            \o ELLIPSIS)

url_penalty(suspicious_urls) ==
    Penalty("UNTRUSTED_URL", "HIGH", 40,
            Msg("Suspicious URLs detected: {}", Len(suspicious_urls)),
            URLS \o join(COMMA, Prefix(suspicious_urls, 2)))

WARN_TOXIC == Msg("CRITICAL: Toxic language detected - may be filtered or downranked to \"Abusive Quality\" section", 0)

WARN_SPAM == Msg("CRITICAL: Spam indicators detected - may trigger GrokSpamFilter (hard filter)", 0)

WARN_NSFW == Msg("CRITICAL: NSFW content detected - may trigger GrokNsfwFilter (hard filter)", 0)

WARN_URL == Msg("HIGH: Suspicious URLs may trigger \"Abusive Quality\" downranking", 0)

safety_penalties_of(toxic_matches, spam_matches, nsfw_matches, suspicious_urls, seed) ==
    (IF toxic_matches # <<>> THEN <<toxic_penalty(toxic_matches, seed)>> ELSE <<>>)
    \o (IF spam_matches # <<>> THEN <<spam_penalty(spam_matches, seed)>> ELSE <<>>)
    \o (IF nsfw_matches # <<>> THEN <<nsfw_penalty(nsfw_matches, seed)>> ELSE <<>>)
    \o (IF suspicious_urls # <<>> THEN <<url_penalty(suspicious_urls)>> ELSE <<>>)

safety_warnings(toxic_matches, spam_matches, nsfw_matches, suspicious_urls) ==
    (IF toxic_matches # <<>> THEN <<WARN_TOXIC>> ELSE <<>>)
    \o (IF spam_matches # <<>> THEN <<WARN_SPAM>> ELSE <<>>)
    \o (IF nsfw_matches # <<>> THEN <<WARN_NSFW>> ELSE <<>>)
    \o (IF suspicious_urls # <<>> THEN <<WARN_URL>> ELSE <<>>)

\* score_after without the floor of max(score, 0).
score_after_unclamped(penalties) ==
    100 - SumSeq([i \in 1..Len(penalties) |-> 0 - penalties[i].impact])

\* score = 100.0, minus each penalty_severity; return max(score, 0)
score_after(penalties) ==
    max(100 - SumSeq([i \in 1..Len(penalties) |-> 0 - penalties[i].impact]), 0)

\* The four checks on the matches found; the toxicity check comes first, and the
\* TypeError of its join leaves the method before the other checks run.
safety_checks(toxic_matches, spam_matches, nsfw_matches, suspicious_urls, seed) ==
    IF toxic_matches # <<>> /\ toxic_join_raises(toxic_matches)
    THEN [raised |-> TRUE, score |-> 0, warnings |-> <<>>, penalties |-> <<>>]
    ELSE [raised |-> FALSE,
          score |-> score_after(safety_penalties_of(toxic_matches, spam_matches, nsfw_matches,
                                                  suspicious_urls, seed)),
          warnings |-> safety_warnings(toxic_matches, spam_matches, nsfw_matches, suspicious_urls),
          penalties |-> safety_penalties_of(toxic_matches, spam_matches, nsfw_matches,
                                         suspicious_urls, seed)]

\* The findall loops of the three pattern sets over the text; t is lower(text).
safety_matches(text, t, starts, suspicious_urls, seed) ==
    safety_checks(AllMatches(toxic_regex, text, t, starts),
                  AllMatches(spam_regex, text, t, starts),
                  AllMatches(nsfw_regex, text, t, starts),
                  suspicious_urls, seed)

safety_lowered(text, t, suspicious_urls, seed) ==
    safety_matches(text, t, MatchStarts(t), suspicious_urls, seed)

\* [raised, score, warnings, penalties]; raised: the TypeError of the toxicity join.
_analyze_safety(text, features, seed) ==
    safety_lowered(text, lower(text), features.suspicious_urls, seed)

(***************************************************************************)
(* _analyze_quality                                                        *)
(***************************************************************************)
\* length_penalty with the TOO_SHORT threshold mistyped as 100.
length_penalty_short_below_100(length) ==
    IF length < 100
    THEN <<Penalty("TOO_SHORT", "MEDIUM", 30, Msg("Tweet too short ({} chars)", length),
                   "Very short tweets get less engagement")>>
    ELSE IF length < OPTIMAL_LENGTH_MIN
    THEN <<Penalty("BELOW_OPTIMAL", "LOW", 10, Msg("Below optimal length ({} chars)", length),
                   "Aim for 50-280 chars")>>
    ELSE <<>>

length_penalty(length) ==
    IF length < 10
    THEN <<Penalty("TOO_SHORT", "MEDIUM", 30, Msg("Tweet too short ({} chars)", length),
                   "Very short tweets get less engagement")>>
    ELSE IF length < OPTIMAL_LENGTH_MIN
    THEN <<Penalty("BELOW_OPTIMAL", "LOW", 10, Msg("Below optimal length ({} chars)", length),
                   "Aim for 50-280 chars")>>
    ELSE <<>>

\* caps_penalty with the second check an `if` of its own rather than an `elif`.
caps_penalty_both(caps_ratio) ==
    (IF RatioGT(caps_ratio, HALF_CAPS_RATIO)
     THEN <<Penalty("EXCESSIVE_CAPS", "HIGH", 40, Msg("Excessive capitalization ({:.1%})", caps_ratio),
                    "May be flagged as spam or low quality")>>
     ELSE <<>>)
    \o (IF RatioGT(caps_ratio, MAX_CAPS_RATIO)
        THEN <<Penalty("HIGH_CAPS", "MEDIUM", 15, Msg("High capitalization ({:.1%})", caps_ratio),
                       "Reduces perceived quality")>>
        ELSE <<>>)

caps_penalty(caps_ratio) ==
    IF RatioGT(caps_ratio, HALF_CAPS_RATIO)
    THEN <<Penalty("EXCESSIVE_CAPS", "HIGH", 40, Msg("Excessive capitalization ({:.1%})", caps_ratio),
                   "May be flagged as spam or low quality")>>
    ELSE IF RatioGT(caps_ratio, MAX_CAPS_RATIO)
    THEN <<Penalty("HIGH_CAPS", "MEDIUM", 15, Msg("High capitalization ({:.1%})", caps_ratio),
                   "Reduces perceived quality")>>
    ELSE <<>>

newline_penalty(newline_count) ==
    IF newline_count > 10
    THEN <<Penalty("EXCESSIVE_NEWLINES", "MEDIUM", 20, Msg("Excessive newlines ({})", newline_count),
                   "May be flagged as spam")>>
    ELSE <<>>

hashtag_penalty(hashtag_count) ==
    IF hashtag_count > 5
    THEN <<Penalty("HASHTAG_SPAM", "MEDIUM", 25, Msg("Too many hashtags ({})", hashtag_count),
                   "Reduces engagement, looks spammy")>>
    ELSE <<>>

quality_warnings(features) ==
    (IF features.text_length < 10
     THEN <<Msg("Tweet too short ({} chars) - low engagement expected", features.text_length)>>
     ELSE <<>>)
    \o (IF RatioGT(features.caps_ratio, HALF_CAPS_RATIO)
        THEN <<Msg("HIGH: Excessive caps ({:.0%}) - looks like spam", features.caps_ratio)>>
        ELSE IF RatioGT(features.caps_ratio, MAX_CAPS_RATIO)
        THEN <<Msg("High caps ratio ({:.0%}) - reduce for better quality", features.caps_ratio)>>
        ELSE <<>>)
    \o (IF features.newline_count > 10
        THEN <<Msg("Too many newlines ({}) - may appear spammy", features.newline_count)>>
        ELSE <<>>)
    \o (IF features.hashtag_count > 5
        THEN <<Msg("Too many hashtags ({}) - use 1-3 max", features.hashtag_count)>>
        ELSE <<>>)

quality_penalties_of(features) ==
    length_penalty(features.text_length) \o caps_penalty(features.caps_ratio)
    \o newline_penalty(features.newline_count) \o hashtag_penalty(features.hashtag_count)

\* [score, warnings, penalties]
_analyze_quality(features) ==
    [score |-> score_after(quality_penalties_of(features)),
     warnings |-> quality_warnings(features),
     penalties |-> quality_penalties_of(features)]

(***************************************************************************)
(* _analyze_engagement_potential                                           *)
(***************************************************************************)
Boost(type, boost, description, details) ==
    [type |-> type, impact |-> boost, description |-> description, details |-> details]

question_boost(features) ==
    IF features.has_question
    THEN <<Boost("HAS_QUESTION", 15, Msg("Question detected", 0), "Questions increase reply likelihood")>>
    ELSE <<>>

\* media_boost with the boosts of video and image exchanged.
media_boost_swapped(features) ==
    IF ~features.has_media THEN <<>>
    ELSE IF features.media_type = "video"
    THEN <<Boost("VIDEO_MEDIA", 25, Msg("Video content", 0), "Video gets highest engagement")>>
    ELSE IF features.media_type = "gif"
    THEN <<Boost("GIF_MEDIA", 20, Msg("GIF content", 0), "GIFs boost engagement")>>
    ELSE IF features.media_type = "image"
    THEN <<Boost("IMAGE_MEDIA", 30, Msg("Image content", 0), "Images significantly boost engagement")>>
    ELSE <<Boost("MEDIA", 20, Msg("Media present", 0), "Media content boosts engagement")>>

media_boost(features) ==
    IF ~features.has_media THEN <<>>
    ELSE IF features.media_type = "video"
    THEN <<Boost("VIDEO_MEDIA", 30, Msg("Video content", 0), "Video gets highest engagement")>>
    ELSE IF features.media_type = "gif"
    THEN <<Boost("GIF_MEDIA", 20, Msg("GIF content", 0), "GIFs boost engagement")>>
    ELSE IF features.media_type = "image"
    THEN <<Boost("IMAGE_MEDIA", 25, Msg("Image content", 0), "Images significantly boost engagement")>>
    ELSE <<Boost("MEDIA", 20, Msg("Media present", 0), "Media content boosts engagement")>>

optimal_length_boost(features) ==
    IF SWEET_SPOT_MIN <= features.text_length /\ features.text_length <= SWEET_SPOT_MAX
    THEN <<Boost("OPTIMAL_LENGTH", 10, Msg("Optimal length ({} chars)", features.text_length),
                 "Sweet spot: 100-200 chars")>>
    ELSE <<>>

\* formatting_boost with the comparison turned round.
formatting_boost_inverted(features) ==
    IF RatioGT(features.caps_ratio, RECOMMENDED_CAPS_RATIO)
    THEN <<Boost("GOOD_FORMATTING", 5, Msg("Clean formatting", 0), "Appropriate capitalization")>>
    ELSE <<>>

formatting_boost(features) ==
    IF RatioLE(features.caps_ratio, RECOMMENDED_CAPS_RATIO)
    THEN <<Boost("GOOD_FORMATTING", 5, Msg("Clean formatting", 0), "Appropriate capitalization")>>
    ELSE <<>>

engagement_boosts(features) ==
    question_boost(features) \o media_boost(features)
    \o optimal_length_boost(features) \o formatting_boost(features)

\* [score, boosts]
_analyze_engagement_potential(features) ==
    [score |-> min(50 + SumSeq([i \in 1..Len(engagement_boosts(features)) |->
                                    engagement_boosts(features)[i].impact]), 100),
     boosts |-> engagement_boosts(features)]

(***************************************************************************)
(* _calculate_overall_score, in thousandths; round(x, 1), in tenths.       *)
(***************************************************************************)
\* features.get('is_from_followed_account', True): the default the other way.
is_from_followed_account_default_true(features) ==
    IF "is_from_followed_account" \in DOMAIN features
    THEN features["is_from_followed_account"] ELSE TRUE

\* features.get('is_from_followed_account', False)
is_from_followed_account(features) ==
    IF "is_from_followed_account" \in DOMAIN features
    THEN features["is_from_followed_account"] ELSE FALSE

\* _calculate_overall_score without the early return for a low safety score.
_calculate_overall_score_no_early_return(safety_score, quality_score, engagement_score, features) ==
    LET overall == (safety_score * 400) + (quality_score * 300) + (engagement_score * 300)
    IN  IF ~is_from_followed_account(features) THEN (overall * 85) \div 100 ELSE overall

\* _calculate_overall_score with the not-followed adjustment applied to the
\* low-safety return as well.
_calculate_overall_score_adjusted(safety_score, quality_score, engagement_score, features) ==
    LET overall == IF safety_score < 50 THEN safety_score * 500
                   ELSE (safety_score * 400) + (quality_score * 300) + (engagement_score * 300)
    IN  IF ~is_from_followed_account(features) THEN (overall * 85) \div 100 ELSE overall

_calculate_overall_score(safety_score, quality_score, engagement_score, features) ==
    IF safety_score < 50 THEN safety_score * 500
    ELSE LET overall == (safety_score * 400) + (quality_score * 300) + (engagement_score * 300)
         IN  IF ~is_from_followed_account(features) THEN (overall * 85) \div 100 ELSE overall

\* The overall scores that lie exactly halfway between two tenths and that the
\* float arithmetic of lines 458-463 leaves just above the halfway point, so
\* that round(overall, 1) rounds them up; the other halfway values are left
\* just below it and round down.
TIES_ROUNDED_UP == {29750, 34850, 43350, 46750, 51850, 60350, 63750, 65450, 73950, 80750, 82450}

\* round(x, 1) of a score of x thousandths, in tenths.
round1(x) ==
    LET q == x \div 100
        r == x % 100
    IN  IF r > 50 \/ (r = 50 /\ x \in TIES_ROUNDED_UP) THEN q + 1 ELSE q

(***************************************************************************)
(* _determine_risk_level; overall_score in thousandths.                    *)
(***************************************************************************)
\* _determine_risk_level with the score thresholds tried before the CRITICAL check.
_determine_risk_level_score_first(overall_score, safety_score, safety_penalties) ==
    IF overall_score >= 60000 THEN "LOW"
    ELSE IF \E i \in 1..Len(safety_penalties) : safety_penalties[i].severity = "CRITICAL"
    THEN "CRITICAL"
    ELSE IF overall_score < 40000 THEN "HIGH"
    ELSE "MEDIUM"

\* _determine_risk_level with LOW starting at 70 rather than 60.
_determine_risk_level_low_at_70(overall_score, safety_score, safety_penalties) ==
    IF \E i \in 1..Len(safety_penalties) : safety_penalties[i].severity = "CRITICAL"
    THEN "CRITICAL"
    ELSE IF overall_score < 40000 THEN "HIGH"
    ELSE IF overall_score < 70000 THEN "MEDIUM"
    ELSE "LOW"

_determine_risk_level(overall_score, safety_score, safety_penalties) ==
    IF \E i \in 1..Len(safety_penalties) : safety_penalties[i].severity = "CRITICAL"
    THEN "CRITICAL"
    ELSE IF overall_score < 40000 THEN "HIGH"
    ELSE IF overall_score < 60000 THEN "MEDIUM"
    ELSE "LOW"

(***************************************************************************)
(* _generate_recommendations                                               *)
(***************************************************************************)
\* _generate_recommendations with the thresholds of the quality penalties (5 hashtags,
\* 10 newlines) in place of its own.
_generate_recommendations_penalty_thresholds(features, safety_score, quality_score, engagement_score, safety_penalties, quality_penalties) ==
    LET recommendations ==
            (IF safety_score < 70
             THEN <<Msg("CRITICAL: Remove toxic/spam/NSFW language to avoid filters", 0)>> ELSE <<>>)
         \o (IF features.suspicious_urls # <<>>
             THEN <<Msg("Replace shortened/suspicious URLs with direct links", 0)>> ELSE <<>>)
         \o (IF features.text_length < OPTIMAL_LENGTH_MIN
             THEN <<Msg("Expand your tweet to {}+ characters for better engagement", OPTIMAL_LENGTH_MIN)>>
             ELSE <<>>)
         \o (IF RatioGT(features.caps_ratio, MAX_CAPS_RATIO)
             THEN <<Msg("Reduce CAPITALIZATION - use sentence case instead", 0)>> ELSE <<>>)
         \o (IF features.hashtag_count > 5
             THEN <<Msg("Reduce hashtags to 1-3 (currently {})", features.hashtag_count)>> ELSE <<>>)
         \o (IF features.newline_count > 10
             THEN <<Msg("Reduce excessive line breaks", 0)>> ELSE <<>>)
         \o (IF ~features.has_question /\ features.text_length > 50
             THEN <<Msg("Consider adding a question to boost replies", 0)>> ELSE <<>>)
         \o (IF ~features.has_media
             THEN <<Msg("Add an image or video for +20-30% engagement boost", 0)>> ELSE <<>>)
         \o (IF features.text_length < SWEET_SPOT_MIN /\ features.text_length >= OPTIMAL_LENGTH_MIN
             THEN <<Msg("Sweet spot is 100-200 chars for maximum engagement", 0)>> ELSE <<>>)
    IN  IF recommendations = <<>>
        THEN <<Msg("Looks good! This tweet should perform well.", 0)>>
        ELSE recommendations

_generate_recommendations(features, safety_score, quality_score, engagement_score, safety_penalties, quality_penalties) ==
    LET recommendations ==
            (IF safety_score < 70
             THEN <<Msg("CRITICAL: Remove toxic/spam/NSFW language to avoid filters", 0)>> ELSE <<>>)
         \o (IF features.suspicious_urls # <<>>
             THEN <<Msg("Replace shortened/suspicious URLs with direct links", 0)>> ELSE <<>>)
         \o (IF features.text_length < OPTIMAL_LENGTH_MIN
             THEN <<Msg("Expand your tweet to {}+ characters for better engagement", OPTIMAL_LENGTH_MIN)>>
             ELSE <<>>)
         \o (IF RatioGT(features.caps_ratio, MAX_CAPS_RATIO)
             THEN <<Msg("Reduce CAPITALIZATION - use sentence case instead", 0)>> ELSE <<>>)
         \o (IF features.hashtag_count > 3
             THEN <<Msg("Reduce hashtags to 1-3 (currently {})", features.hashtag_count)>> ELSE <<>>)
         \o (IF features.newline_count > 5
             THEN <<Msg("Reduce excessive line breaks", 0)>> ELSE <<>>)
         \o (IF ~features.has_question /\ features.text_length > 50
             THEN <<Msg("Consider adding a question to boost replies", 0)>> ELSE <<>>)
         \o (IF ~features.has_media
             THEN <<Msg("Add an image or video for +20-30% engagement boost", 0)>> ELSE <<>>)
         \o (IF features.text_length < SWEET_SPOT_MIN /\ features.text_length >= OPTIMAL_LENGTH_MIN
             THEN <<Msg("Sweet spot is 100-200 chars for maximum engagement", 0)>> ELSE <<>>)
    IN  IF recommendations = <<>>
        THEN <<Msg("Looks good! This tweet should perform well.", 0)>>
        ELSE recommendations

(***************************************************************************)
(* analyze: the AnalysisResult it returns, or the exception that escapes.  *)
(* Sub-scores are whole numbers; overall_score is in tenths.               *)
(***************************************************************************)
Raised(exc) == [status |-> "raised", exc |-> exc]

AnalysisResult(overall_score, risk_level, safety_score, quality_score, engagement_potential, penalties, boosts, warnings, recommendations, feature_breakdown) ==
    [status |-> "returned",
     overall_score |-> overall_score,
     risk_level |-> risk_level,
     safety_score |-> safety_score,
     quality_score |-> quality_score,
     engagement_potential |-> engagement_potential,
     penalties |-> penalties,
     boosts |-> boosts,
     warnings |-> warnings,
     recommendations |-> recommendations,
     feature_breakdown |-> feature_breakdown]

\* analyze_result with the two penalty lists concatenated the other way round.
analyze_result_quality_first(features, safety, quality, engagement, overall_score) ==
    AnalysisResult(round1(overall_score),
                   _determine_risk_level(overall_score, safety.score, safety.penalties),
                   safety.score, quality.score, engagement.score,
                   quality.penalties \o safety.penalties,
                   engagement.boosts, safety.warnings \o quality.warnings,
                   _generate_recommendations(features, safety.score, quality.score,
                                             engagement.score, safety.penalties, quality.penalties),
                   features)

\* Lines 110-130: the risk level, the recommendations and the result.
analyze_result(features, safety, quality, engagement, overall_score) ==
    AnalysisResult(round1(overall_score),
                   _determine_risk_level(overall_score, safety.score, safety.penalties),
                   safety.score, quality.score, engagement.score,
                   safety.penalties \o quality.penalties,
                   engagement.boosts, safety.warnings \o quality.warnings,
                   _generate_recommendations(features, safety.score, quality.score,
                                             engagement.score, safety.penalties, quality.penalties),
                   features)

\* Lines 105-108: the overall score of the three parts.  An exception of
\* _analyze_safety escapes analyze: nothing catches it.
analyze_scores(features, safety, quality, engagement) ==
    IF safety.raised THEN Raised("TypeError")
    ELSE analyze_result(features, safety, quality, engagement,
                        _calculate_overall_score(safety.score, quality.score,
                                                 engagement.score, features))

\* Lines 95-104: the three analyses of the extracted features.
analyze_features(text, features, seed) ==
    analyze_scores(features, _analyze_safety(text, features, seed),
                   _analyze_quality(features), _analyze_engagement_potential(features))

analyze(text, has_media, media_type, is_reply, seed) ==
    analyze_features(text, _extract_features(text, has_media, media_type, is_reply), seed)

(***************************************************************************)
(* The texts analysed: a phrase repeated up to MaxRepeat times, followed   *)
(* or not by a second phrase, the phrases joined by single spaces; and the *)
(* empty text.                                                             *)
(***************************************************************************)
MaxRepeat == 2

NumHashSeeds == 2

Vocabulary == <<
    <<"o", "k">>,
    <<"W", "h", "y", "?">>,
    <<"T", "H", "I", "S", " ", "I", "S", " ", "S", "H", "O", "U", "T", "I", "N", "G">>,
    <<"h", "a", "t", "e">>,
    <<"S", "t", "u", "p", "i", "d", " ", "i", "d", "i", "o", "t">>,
    <<"k", "i", "l", "l", " ", "y", "o", "u">>,
    <<"F", "4", "F">>,
    <<"c", "r", "y", "p", "t", "o", " ", "p", "r", "o", "f", "i", "t", ",", " ", "b", "u", "y", " ", "n", "o", "w">>,
    <<"p", "o", "r", "n">>,
    <<"h", "t", "t", "p", ":", "/", "/", "b", "i", "t", ".", "l", "y", "/", "1", "2", "3", "a", "b", "c">>,
    <<"b", "i", "t", ".", "l", "y", "/", "1", "2", "3", "a", "b", "c">>,
    <<"h", "t", "t", "p", ":", "/", "/", "[">>,
    <<"h", "t", "t", "p", ":", "/", "/", "e", "x", "a", "m", "p", "l", "e", ".", "c", "o", "m", "/", "a">>,
    <<"\n", "\n", "\n", "\n", "\n", "\n">>,
    <<"#", "a", " ", "#", "b">>,
    <<"#", "A", "B", " ", "#", "C", "D", " ", "#", "E", "F", " ", "#", "G", "H", " ", "#", "I", "J", " ", "#", "K", "L">>,
    <<"#", "a", "#", "b", "#", "c", "#", "d", "#", "e", "#", "f">>,
    <<"j", "u", "s", "t", " ", "f", "i", "n", "i", "s", "h", "e", "d", " ", "r", "e", "a", "d", "i", "n", "g", " ", "a", "n", " ", "a", "r", "t", "i", "c", "l", "e", " ", "a", "b", "o", "u", "t", " ", "t", "h", "e", " ", "f", "u", "t", "u", "r", "e", " ", "o", "f", " ", "m", "a", "c", "h", "i", "n", "e", " ", "l", "e", "a", "r", "n", "i", "n", "g">> >>

Phrases == 1..Len(Vocabulary)

PhraseSeqs == {<<>>} \cup {[i \in 1..k |-> p] \o tail :
                              p \in Phrases, k \in 1..MaxRepeat,
                              tail \in {<<>>} \cup {<<q>> : q \in Phrases}}

TextOf(ps) == join(<<" ">>, [i \in 1..Len(ps) |-> Vocabulary[ps[i]]])

Texts == {TextOf(ps) : ps \in PhraseSeqs}

MediaTypes == {None, "image", "video", "gif"}

HashSeeds == 0..(NumHashSeeds - 1)

NoCall == [status |-> "none"]

Init == /\ args \in [text : Texts, has_media : BOOLEAN, media_type : MediaTypes, is_reply : BOOLEAN]
        /\ hashSeed \in HashSeeds
        /\ result = NoCall

\* analyzer.analyze(text, has_media, media_type, is_reply)
Analyze == /\ result' = analyze(args.text, args.has_media, args.media_type, args.is_reply, hashSeed)
           /\ UNCHANGED <<args, hashSeed>>

\* The program ends and is started again: the new process has another hash seed.
Restart == /\ hashSeed' \in HashSeeds \ {hashSeed}
           /\ UNCHANGED <<args, result>>

Next == Analyze \/ Restart

Spec == Init /\ [][Next]_vars

(***************************************************************************)
(* What the properties below read off the state.                           *)
(***************************************************************************)
Returned == result.status = "returned"

SAFETY_TYPES == {"HIGH_TOXICITY", "HIGH_SPAMMY_CONTENT", "NSFW_CONTENT", "UNTRUSTED_URL"}

\* The penalty records of the result with the given type.
PenaltiesOf(type) == SelectSeq(result.penalties, LAMBDA p : p.type = type)

HasPenalty(type) == PenaltiesOf(type) # <<>>

\* The result holds exactly one penalty record of the type, with this impact and severity.
OnePenalty(type, impact, severity) ==
    /\ Len(PenaltiesOf(type)) = 1
    /\ PenaltiesOf(type)[1].impact = impact
    /\ PenaltiesOf(type)[1].severity = severity

SafetyPenalties == SelectSeq(result.penalties, LAMBDA p : p.type \in SAFETY_TYPES)

HasCriticalSafetyPenalty ==
    \E i \in 1..Len(SafetyPenalties) : SafetyPenalties[i].severity = "CRITICAL"

BoostsOf(type) == SelectSeq(result.boosts, LAMBDA b : b.type = type)

Abs(n) == IF n < 0 THEN 0 - n ELSE n

ShortNoMedia == Len(args.text) < 10 /\ ~args.has_media

OkNoMedia == args.text = <<"o", "k">> /\ ~args.has_media

BARE_SHORT_LINK == <<"b", "i", "t", ".", "l", "y", "/", "1", "2", "3", "a", "b", "c">>

\* A video call on a text with no question mark and a length outside the sweet spot.
VideoOnly == /\ args.has_media /\ args.media_type = "video"
             /\ \A i \in 1..Len(args.text) : args.text[i] # "?"
             /\ (Len(args.text) < SWEET_SPOT_MIN \/ Len(args.text) > SWEET_SPOT_MAX)

(***************************************************************************)
(* C1                                                                      *)
(***************************************************************************)
\* C1, as the specification states it: no call of analyze lets an exception
\* escape; every call returns an AnalysisResult.
C1_NoExceptionEscapes == result.status # "raised"

C3_RiskPriority ==
    Returned =>
        result.risk_level = IF HasCriticalSafetyPenalty THEN "CRITICAL"
                            ELSE IF result.overall_score < 400 THEN "HIGH"
                            ELSE IF result.overall_score < 600 THEN "MEDIUM"
                            ELSE "LOW"

\* A CRITICAL result whose overall score alone would make it LOW.
C3_Witness == Returned /\ HasCriticalSafetyPenalty /\ result.overall_score >= 600

(***************************************************************************)
(* C4                                                                      *)
(***************************************************************************)
\* C4: the three sub-scores and the overall score of every result lie in [0, 100].
C4_ScoresInRange ==
    Returned =>
        /\ 0 <= result.safety_score /\ result.safety_score <= 100
        /\ 0 <= result.quality_score /\ result.quality_score <= 100
        /\ 0 <= result.engagement_potential /\ result.engagement_potential <= 100
        /\ 0 <= result.overall_score /\ result.overall_score <= 1000

\* A result whose safety penalties sum to more than 100: the floor acts.
C4_Witness ==
    /\ Returned
    /\ SumSeq([i \in 1..Len(SafetyPenalties) |-> 0 - SafetyPenalties[i].impact]) > 100
    /\ result.safety_score = 0

(***************************************************************************)
(* C5                                                                      *)
(***************************************************************************)
\* C5, as the specification states it: a call of analyze returns what the call
\* before it on the same arguments returned, in the same run of the program
\* or in another.
C5_Deterministic == [][result # NoCall => result' = result]_vars

(***************************************************************************)
(* C6                                                                      *)
(***************************************************************************)
\* C6, as the specification states it: for a text shorter than 10 characters
\* with no media ("ok" among them) the risk level is HIGH or MEDIUM, never LOW.
C6_ShortNeverLow ==
    (Returned /\ ShortNoMedia) => result.risk_level \in {"HIGH", "MEDIUM"}

\* C6, amended: for "ok" with no media the overall score is 65.9 and the risk
\* level is LOW; and every text shorter than 10 characters with no media, no
\* safety penalty and no caps penalty scores at least 64.6 and is LOW.
C6_ShortCleanIsLow ==
    /\ (Returned /\ OkNoMedia) => (result.overall_score = 659 /\ result.risk_level = "LOW")
    /\ (Returned /\ ShortNoMedia /\ SafetyPenalties = <<>>
          /\ ~HasPenalty("EXCESSIVE_CAPS") /\ ~HasPenalty("HIGH_CAPS"))
         => (result.overall_score >= 646 /\ result.risk_level = "LOW")

C6_Witness == Returned /\ OkNoMedia /\ result.risk_level = "LOW"

(***************************************************************************)
(* C7                                                                      *)
(***************************************************************************)
\* C7, as the specification states it: for "ok" with no media the quality
\* scorer emits TOO_SHORT (-30, MEDIUM) and the engagement score is the
\* baseline 50 with an empty boost list.
C7_OkBaseline ==
    (Returned /\ OkNoMedia)
        => /\ OnePenalty("TOO_SHORT", 0 - 30, "MEDIUM")
           /\ result.engagement_potential = 50
           /\ result.boosts = <<>>

\* C7, amended: for "ok" with no media the quality scorer emits TOO_SHORT
\* (-30, MEDIUM), and the engagement score is 55: the baseline 50 and the
\* GOOD_FORMATTING boost (+5), the only boost of the list.
C7_OkGoodFormatting ==
    (Returned /\ OkNoMedia)
        => /\ OnePenalty("TOO_SHORT", 0 - 30, "MEDIUM")
           /\ result.engagement_potential = 55
           /\ Len(result.boosts) = 1
           /\ result.boosts[1].type = "GOOD_FORMATTING"
           /\ result.boosts[1].impact = 5

C7_Witness == Returned /\ OkNoMedia /\ result.quality_score = 70

(***************************************************************************)
(* C8                                                                      *)
(***************************************************************************)
\* C8, as the specification states it: when the text contains the short link
\* bit.ly/123abc, suspicious_urls holds that address, there is one
\* UNTRUSTED_URL penalty (-40, HIGH) and its warning is emitted.
C8_ShortLinkFlagged ==
    (Returned /\ Contains(args.text, BARE_SHORT_LINK))
        => /\ \E i \in 1..Len(result.feature_breakdown.suspicious_urls) :
                  Contains(result.feature_breakdown.suspicious_urls[i], BARE_SHORT_LINK)
           /\ OnePenalty("UNTRUSTED_URL", 0 - 40, "HIGH")
           /\ \E i \in 1..Len(result.warnings) : result.warnings[i] = WARN_URL

(***************************************************************************)
(* C9                                                                      *)
(***************************************************************************)
\* C9, as the specification states it: a video call on a text with no question
\* mark and a length outside [100, 200] has VIDEO_MEDIA at +30 among its boosts
\* and an engagement score of exactly 80.
C9_VideoIs80 ==
    (Returned /\ VideoOnly)
        => /\ Len(BoostsOf("VIDEO_MEDIA")) = 1 /\ BoostsOf("VIDEO_MEDIA")[1].impact = 30
           /\ result.engagement_potential = 80

\* C9, amended: such a call has VIDEO_MEDIA at +30 among its boosts; its
\* engagement score is 80 when the caps ratio is above 0.1, and 85 when it is
\* not, GOOD_FORMATTING (+5) then following VIDEO_MEDIA in the list.
C9_VideoIs80Or85 ==
    (Returned /\ VideoOnly)
        => /\ Len(BoostsOf("VIDEO_MEDIA")) = 1 /\ BoostsOf("VIDEO_MEDIA")[1].impact = 30
           /\ IF RatioGT(result.feature_breakdown.caps_ratio, RECOMMENDED_CAPS_RATIO)
              THEN result.engagement_potential = 80 /\ Len(result.boosts) = 1
              ELSE /\ result.engagement_potential = 85
                   /\ Len(result.boosts) = 2
                   /\ result.boosts[2].type = "GOOD_FORMATTING"
                   /\ result.boosts[2].impact = 5

C9_Witness == Returned /\ VideoOnly /\ result.engagement_potential = 85

(***************************************************************************)
(* C10                                                                     *)
(***************************************************************************)
\* C10: no result holds both TOO_SHORT and BELOW_OPTIMAL, nor both
\* EXCESSIVE_CAPS and HIGH_CAPS; a caps ratio above 0.5 gives EXCESSIVE_CAPS
\* (-40, HIGH) only, one in (0.3, 0.5] gives HIGH_CAPS (-15, MEDIUM) only, a
\* lower one neither; EXCESSIVE_NEWLINES (-20) is there exactly when there are
\* more than 10 newlines and HASHTAG_SPAM (-25) exactly when there are more
\* than 5 hashtags, whatever the other checks found.
C10_QualityLadders ==
    Returned =>
        LET f == result.feature_breakdown
        IN  /\ ~(HasPenalty("TOO_SHORT") /\ HasPenalty("BELOW_OPTIMAL"))
            /\ ~(HasPenalty("EXCESSIVE_CAPS") /\ HasPenalty("HIGH_CAPS"))
            /\ IF RatioGT(f.caps_ratio, HALF_CAPS_RATIO)
               THEN OnePenalty("EXCESSIVE_CAPS", 0 - 40, "HIGH") /\ ~HasPenalty("HIGH_CAPS")
               ELSE IF RatioGT(f.caps_ratio, MAX_CAPS_RATIO)
               THEN OnePenalty("HIGH_CAPS", 0 - 15, "MEDIUM") /\ ~HasPenalty("EXCESSIVE_CAPS")
               ELSE ~HasPenalty("HIGH_CAPS") /\ ~HasPenalty("EXCESSIVE_CAPS")
            /\ IF f.newline_count > 10
               THEN OnePenalty("EXCESSIVE_NEWLINES", 0 - 20, "MEDIUM")
               ELSE ~HasPenalty("EXCESSIVE_NEWLINES")
            /\ IF f.hashtag_count > 5
               THEN OnePenalty("HASHTAG_SPAM", 0 - 25, "MEDIUM")
               ELSE ~HasPenalty("HASHTAG_SPAM")

\* A result where a tier of each ladder and both independent checks fired.
C10_Witness ==
    /\ Returned
    /\ HasPenalty("BELOW_OPTIMAL") /\ HasPenalty("EXCESSIVE_CAPS")
    /\ HasPenalty("EXCESSIVE_NEWLINES") /\ HasPenalty("HASHTAG_SPAM")

(***************************************************************************)
(* C11                                                                     *)
(***************************************************************************)
\* The place of a penalty type in the order the detectors run: the four safety
\* detectors, then the length, caps, newline and hashtag checks of quality.
DetectorRank(type) ==
    CASE type = "HIGH_TOXICITY" -> 1
      [] type = "HIGH_SPAMMY_CONTENT" -> 2
      [] type = "NSFW_CONTENT" -> 3
      [] type = "UNTRUSTED_URL" -> 4
      [] type \in {"TOO_SHORT", "BELOW_OPTIMAL"} -> 5
      [] type \in {"EXCESSIVE_CAPS", "HIGH_CAPS"} -> 6
      [] type = "EXCESSIVE_NEWLINES" -> 7
      [] type = "HASHTAG_SPAM" -> 8
      [] OTHER -> 0

\* C11: the penalties of every result are the safety penalties followed by the
\* quality penalties, each group in detector order, and no penalty type (nor
\* two tiers of one ladder) appears twice: the detector ranks of the list are
\* known and strictly increasing.
C11_PenaltyOrder ==
    Returned =>
        /\ \A i \in 1..Len(result.penalties) : DetectorRank(result.penalties[i].type) > 0
        /\ \A i \in 1..(Len(result.penalties) - 1) :
               DetectorRank(result.penalties[i].type) < DetectorRank(result.penalties[i + 1].type)

\* A result with two safety penalties or more and two quality penalties or more.
C11_Witness ==
    /\ Returned
    /\ Len(SafetyPenalties) >= 2
    /\ Len(result.penalties) - Len(SafetyPenalties) >= 2

(***************************************************************************)
(* Calls of analyze interleaved on one shared EngagementAnalyzer, in one   *)
(* process.  Under SpecThreads args[t] holds the arguments of the call of  *)
(* thread t and result[t] its frame: where the call stands (pc), its       *)
(* locals, and what it returned or raised (out).  The instance holds the   *)
(* compiled pattern lists, which no step assigns.  A step is one statement *)
(* of analyze (lines 92-130).                                              *)
(***************************************************************************)
NumThreads == 2

Threads == 1..NumThreads

\* The calls the threads make.
ThreadArgs == {
    [text |-> <<"o", "k">>, has_media |-> FALSE, media_type |-> None, is_reply |-> FALSE],
    [text |-> <<"S", "t", "u", "p", "i", "d", " ", "i", "d", "i", "o", "t">>, has_media |-> FALSE, media_type |-> None, is_reply |-> TRUE],
    [text |-> <<"k", "i", "l", "l", " ", "y", "o", "u">>, has_media |-> TRUE, media_type |-> "image", is_reply |-> FALSE],
    [text |-> <<"h", "t", "t", "p", ":", "/", "/", "b", "i", "t", ".", "l", "y", "/", "1", "2", "3", "a", "b", "c", " ", "W", "h", "y", "?">>, has_media |-> TRUE, media_type |-> "video", is_reply |-> FALSE] }

\* The frame of a thread that has not called yet.  overlap records that a step
\* of the call ran while another call was under way.
IdleFrame == [pc |-> "idle", features |-> None, safety |-> None, quality |-> None,
              engagement |-> None, overall_score |-> None, out |-> NoCall, overlap |-> FALSE]

\* The call of thread u is under way.
InCall(u) == result[u].pc \notin {"idle", "done", "raised"}

Overlaps(t) == result[t].overlap \/ \E u \in Threads \ {t} : InCall(u)

\* features = {...} is a local variable of the call: the frame that holds the
\* features of the call of thread t is the thread's own.
features_frame_shared(t) == 1

features_frame(t) == t

InitThreads == /\ args \in [Threads -> ThreadArgs]
               /\ hashSeed \in HashSeeds
               /\ result = [t \in Threads |-> IdleFrame]

\* Line 92: features = self._extract_features(text, has_media, media_type, is_reply)
ExtractFeatures(t) ==
    /\ result[t].pc = "idle"
    /\ result' = [result EXCEPT
           ![features_frame(t)].features =
               _extract_features(args[t].text, args[t].has_media, args[t].media_type, args[t].is_reply),
           ![t].pc = "features",
           ![t].overlap = Overlaps(t)]
    /\ UNCHANGED <<args, hashSeed>>

\* The frame of thread t after line 95, given what _analyze_safety did.
AfterSafety(t, safety) ==
    IF safety.raised
    THEN [result EXCEPT ![t].pc = "raised", ![t].out = Raised("TypeError"),
                        ![t].overlap = Overlaps(t)]
    ELSE [result EXCEPT ![t].pc = "safety", ![t].safety = safety, ![t].overlap = Overlaps(t)]

\* Line 95: safety_score, safety_warnings, safety_penalties = self._analyze_safety(text, features)
AnalyzeSafety(t) ==
    /\ result[t].pc = "features"
    /\ result' = AfterSafety(t, _analyze_safety(args[t].text, result[features_frame(t)].features, hashSeed))
    /\ UNCHANGED <<args, hashSeed>>

\* Line 98: quality_score, quality_warnings, quality_penalties = self._analyze_quality(features)
AnalyzeQuality(t) ==
    /\ result[t].pc = "safety"
    /\ result' = [result EXCEPT ![t].pc = "quality",
                                ![t].quality = _analyze_quality(result[features_frame(t)].features),
                                ![t].overlap = Overlaps(t)]
    /\ UNCHANGED <<args, hashSeed>>

\* Line 101: engagement_score, engagement_boosts = self._analyze_engagement_potential(features)
AnalyzeEngagement(t) ==
    /\ result[t].pc = "quality"
    /\ result' = [result EXCEPT ![t].pc = "engagement",
                                ![t].engagement = _analyze_engagement_potential(result[features_frame(t)].features),
                                ![t].overlap = Overlaps(t)]
    /\ UNCHANGED <<args, hashSeed>>

\* Lines 104-106: overall_score = self._calculate_overall_score(...)
CalculateOverall(t) ==
    /\ result[t].pc = "engagement"
    /\ result' = [result EXCEPT ![t].pc = "overall",
                                ![t].overall_score =
                                    _calculate_overall_score(result[t].safety.score, result[t].quality.score,
                                                             result[t].engagement.score,
                                                             result[features_frame(t)].features),
                                ![t].overlap = Overlaps(t)]
    /\ UNCHANGED <<args, hashSeed>>

\* Lines 109-130: the risk level, the recommendations, and return AnalysisResult(...)
Return(t) ==
    /\ result[t].pc = "overall"
    /\ result' = [result EXCEPT ![t].pc = "done",
                                ![t].out = analyze_result(result[features_frame(t)].features, result[t].safety,
                                                          result[t].quality, result[t].engagement,
                                                          result[t].overall_score),
                                ![t].overlap = Overlaps(t)]
    /\ UNCHANGED <<args, hashSeed>>

NextThreads == \E t \in Threads :
                   \/ ExtractFeatures(t)
                   \/ AnalyzeSafety(t)
                   \/ AnalyzeQuality(t)
                   \/ AnalyzeEngagement(t)
                   \/ CalculateOverall(t)
                   \/ Return(t)

SpecThreads == InitThreads /\ [][NextThreads]_vars

(***************************************************************************)
(* C12                                                                     *)
(***************************************************************************)
\* C12: whatever the interleaving of the calls on the shared instance, a call
\* that has ended returned (or raised) what the same call returns (or raises)
\* when it runs alone.
C12_InterleavingEquivalent ==
    \A t \in Threads :
        result[t].pc \in {"done", "raised"}
            => result[t].out = analyze(args[t].text, args[t].has_media, args[t].media_type,
                                       args[t].is_reply, hashSeed)

\* A call that returned a result, having run while a call with other arguments
\* was under way.
C12_Witness ==
    \E t \in Threads :
        /\ result[t].pc = "done"
        /\ result[t].overlap
        /\ \E u \in Threads : args[u] # args[t] /\ result[u].pc # "idle"

(***************************************************************************)
(* C13                                                                     *)
(***************************************************************************)
\* 0.85 x (0.4 x safety + 0.3 x quality + 0.3 x engagement) of the result, in
\* thousandths: a whole number, the three scores being multiples of 5.
WeightedAdjusted ==
    (340 * result.safety_score) + (255 * result.quality_score)
    + (255 * result.engagement_potential)

MatchCount(regexes, t) == Len(AllMatches(regexes, args.text, t, MatchStarts(t)))

\* How often a warning appears among the warnings of the result.
WarningCount(w) == Cardinality({i \in 1..Len(result.warnings) : result.warnings[i].msg = w.msg})

\* A detector that triggered left one penalty record, with this penalty and
\* severity, and one warning; one that did not left neither.
Emitted(triggered, type, penalty, severity, warning) ==
    IF triggered
    THEN OnePenalty(type, 0 - penalty, severity) /\ WarningCount(warning) = 1
    ELSE ~HasPenalty(type) /\ WarningCount(warning) = 0

\* The safety part of the result is what t toxicity matches, s spam matches,
\* n NSFW matches and u suspicious URLs give.
SafetyAsSpecified(t, s, n, u) ==
    /\ Emitted(t > 0, "HIGH_TOXICITY", min(15 * t, 60),
               IF t >= 3 THEN "CRITICAL" ELSE "HIGH", WARN_TOXIC)
    /\ Emitted(s > 0, "HIGH_SPAMMY_CONTENT", min(20 * s, 70),
               IF s >= 3 THEN "CRITICAL" ELSE "HIGH", WARN_SPAM)
    /\ Emitted(n > 0, "NSFW_CONTENT", 50, "CRITICAL", WARN_NSFW)
    /\ Emitted(u > 0, "UNTRUSTED_URL", 40, "HIGH", WARN_URL)
    /\ result.safety_score =
           max(0, 100 - ((IF t > 0 THEN min(15 * t, 60) ELSE 0)
                         + (IF s > 0 THEN min(20 * s, 70) ELSE 0)
                         + (IF n > 0 THEN 50 ELSE 0)
                         + (IF u > 0 THEN 40 ELSE 0)))

\* C14: the safety score of every result is max(0, 100 - the sum of the
\* triggered safety penalties): toxicity min(15t, 60), CRITICAL iff t >= 3,
\* else HIGH; spam min(20s, 70), CRITICAL iff s >= 3, else HIGH; NSFW 50,
\* CRITICAL; suspicious URL 40, HIGH; with no cap across detectors, and one
\* penalty record and one warning per triggered detector.
C14_SafetyScore ==
    Returned => SafetyAsSpecified(MatchCount(toxic_regex, lower(args.text)),
                                  MatchCount(spam_regex, lower(args.text)),
                                  MatchCount(nsfw_regex, lower(args.text)),
                                  Len(result.feature_breakdown.suspicious_urls))

\* A result with three toxicity matches or more (CRITICAL) and a penalty of
\* another detector beside it.
C14_Witness ==
    /\ Returned
    /\ MatchCount(toxic_regex, lower(args.text)) >= 3
    /\ Len(SafetyPenalties) >= 2

(***************************************************************************)
(* C15                                                                     *)
(***************************************************************************)
RecommendationTexts == [i \in 1..Len(result.recommendations) |-> result.recommendations[i].msg]

AFFIRMATION == "Looks good! This tweet should perform well."

\* The advice the features f and the safety score call for, in priority order:
\* safety, then quality, then engagement.
TriggeredAdvice(f, safety_score) ==
    (IF safety_score < 70
     THEN <<"CRITICAL: Remove toxic/spam/NSFW language to avoid filters">> ELSE <<>>)
    \o (IF f.suspicious_urls # <<>>
        THEN <<"Replace shortened/suspicious URLs with direct links">> ELSE <<>>)
    \o (IF f.text_length < 50
        THEN <<"Expand your tweet to {}+ characters for better engagement">> ELSE <<>>)
    \o (IF RatioGT(f.caps_ratio, [num |-> 3, den |-> 10])
        THEN <<"Reduce CAPITALIZATION - use sentence case instead">> ELSE <<>>)
    \o (IF f.hashtag_count > 3 THEN <<"Reduce hashtags to 1-3 (currently {})">> ELSE <<>>)
    \o (IF f.newline_count > 5 THEN <<"Reduce excessive line breaks">> ELSE <<>>)
    \o (IF ~f.has_question /\ f.text_length > 50
        THEN <<"Consider adding a question to boost replies">> ELSE <<>>)
    \o (IF ~f.has_media
        THEN <<"Add an image or video for +20-30% engagement boost">> ELSE <<>>)
    \o (IF 50 <= f.text_length /\ f.text_length < 100
        THEN <<"Sweet spot is 100-200 chars for maximum engagement">> ELSE <<>>)

RecommendationsAsSpecified(advice) ==
    /\ result.recommendations # <<>>
    /\ RecommendationTexts = IF advice = <<>> THEN <<AFFIRMATION>> ELSE advice

\* C15: the recommendations of every result are not empty; they are the
\* triggered advice in priority order (safety < 70, a suspicious URL, length
\* < 50, caps ratio > 0.3, more than 3 hashtags, more than 5 newlines, no
\* question and length > 50, no media, 50 <= length < 100), and the positive
\* affirmation is there exactly when none triggered, as the only element.
C15_Recommendations ==
    Returned => RecommendationsAsSpecified(TriggeredAdvice(result.feature_breakdown,
                                                           result.safety_score))

\* A result advised on hashtags and newlines below the penalty thresholds.
C15_Witness ==
    /\ Returned
    /\ result.feature_breakdown.hashtag_count \in 4..5
    /\ result.feature_breakdown.newline_count \in 6..10
    /\ Len(result.recommendations) >= 4
    /\ ~HasPenalty("HASHTAG_SPAM") /\ ~HasPenalty("EXCESSIVE_NEWLINES")

\* A result whose only recommendation is the positive affirmation.
C15_AffirmationReached == Returned /\ RecommendationTexts = <<AFFIRMATION>>

(***************************************************************************)
(* C16                                                                     *)
(***************************************************************************)
\* C16: the overall score of every result is at most 85.0; and when the safety
\* score is below 50 the overall score is below 25 and the risk level is HIGH
\* or CRITICAL.
C16_OverallCeiling ==
    Returned =>
        /\ result.overall_score <= 850
        /\ result.safety_score < 50
             => (result.overall_score < 250 /\ result.risk_level \in {"HIGH", "CRITICAL"})

\* The ceiling is reached: a result with the three sub-scores at 100.
C16_Witness == Returned /\ result.overall_score = 850

\* A result with a low safety score and no CRITICAL safety penalty.
C16_LowSafetyHighReached ==
    Returned /\ result.safety_score < 50 /\ result.risk_level = "HIGH"

(***************************************************************************)
(* C17                                                                     *)
(***************************************************************************)
\* C17: the quality score of every result is at least 5, and TOO_SHORT never
\* comes with EXCESSIVE_NEWLINES or HASHTAG_SPAM.
C17_QualityFloor ==
    Returned =>
        /\ result.quality_score >= 5
        /\ ~(HasPenalty("TOO_SHORT")
             /\ (HasPenalty("EXCESSIVE_NEWLINES") \/ HasPenalty("HASHTAG_SPAM")))

\* The four quality penalties that can come together did: 10 + 40 + 20 + 25.
C17_Witness == Returned /\ result.quality_score = 5

\* The shortest text with more than 5 hashtags has 12 characters.
C17_ShortestHashtagSpamReached ==
    Returned /\ HasPenalty("HASHTAG_SPAM") /\ Len(args.text) = 12
====
